---- MODULE Spec2Model ----
(***************************************************************************)
(* Model of the springboard driver framework (wakatiwai-udive): the        *)
(* Driver IO Channel handed across an image start, the boot and file       *)
(* system driver preludes, the invoker side wrappers, and driver           *)
(* discovery in the driver directories.                                    *)
(***************************************************************************)
EXTENDS Integers, Sequences, FiniteSets, TLC

(***************************************************************************)
(* Bounds of the model.                                                    *)
(***************************************************************************)
\* image starts (invocations and direct starts) in one behaviour
MaxStarts == 2
\* entries of the driver directory under enumeration
MaxEntries == 3

(***************************************************************************)
(* Program constants.                                                      *)
(***************************************************************************)
PAGE_SIZE == 4096
\* size_of::<usize>() on the 64-bit UEFI targets
SIZE_OF_USIZE == 8
\* size_of::<DriverIO>(): two pointers
SIZE_OF_DRIVERIO == 16
NULL == 0

BOOT_DRIVER_IO_MEMTYPE == "BOOT_DRIVER_IO"
FSYS_DRIVER_IO_MEMTYPE == "FSYS_DRIVER_IO"
LOADER_DATA == "LOADER_DATA"
LOADER_CODE == "LOADER_CODE"

Kinds == {"boot", "fs"}

MemTypeOf(kind) ==
  IF kind = "boot" THEN BOOT_DRIVER_IO_MEMTYPE ELSE FSYS_DRIVER_IO_MEMTYPE

(***************************************************************************)
(* uefi::Status: SUCCESS, a warning (neither success nor error) and error  *)
(* codes.                                                                  *)
(***************************************************************************)
SUCCESS == "SUCCESS"
NOT_FOUND == "NOT_FOUND"
ErrorStatuses == {"NOT_FOUND", "LOAD_ERROR"}
WarnStatuses == {"WARN_DELETE_FAILURE"}
Statuses == {SUCCESS} \cup WarnStatuses \cup ErrorStatuses
NoStatus == "NONE"

is_success(s) == s = SUCCESS
is_error(s) == s \in ErrorStatuses

\* the files a file system driver's main returns in the model: the empty
\* file and files of one and two bytes
ByteVecs == {<< >>, <<1>>, <<1, 0>>}

\* the argument structures (their addresses) the invoker passes
ArgPtrs == {1, 2}

VARIABLES
  memmap,     \* the firmware memory map: entries [ty, phys_start, pages] in scan order
  chan,       \* DriverIO structures held in channel regions: phys_start -> [inptr, outptr]
  outbuf,     \* output regions written by the fs prelude: phys_start -> [size, data]
  DRIVER_IO,  \* the static of each driver image: kind -> phys_start, NULL for None
  loaded,     \* kind -> whether the driver of that kind is loaded
  pc,         \* position of the single thread of control
  dio,        \* the invoker's DriverIO local of the running invoke
  cur,        \* record of the running (or last) image start
  starts,     \* image starts so far
  dir,        \* the driver directory under enumeration
  listed,     \* result of the last listing
  looked,     \* result of the last lookup by name
  build,      \* how the crate was built: [overflow_checks]
  reader,     \* the DiskReader, once constructed
  io          \* record of the last DiskReader operation

vars ==
  <<memmap, chan, outbuf, DRIVER_IO, loaded, pc, dio, cur, starts, dir, listed, looked,
    build, reader, io>>

protoVars == <<memmap, chan, outbuf, DRIVER_IO, loaded, pc, dio, cur, starts>>
discVars == <<dir, listed, looked>>
diskVars == <<build, reader, io>>

(***************************************************************************)
(* Result values.                                                          *)
(***************************************************************************)
\* Result<Status, Status> of the invocation primitive
PrimOk(s) == [tag |-> "Ok", st |-> s]
PrimErr(s) == [tag |-> "Err", st |-> s]
PrimNone == [tag |-> "none", st |-> NoStatus]

\* return values of a driver's main
MainNone == [tag |-> "None", st |-> NoStatus, bytes |-> << >>]
MainSome(s) == [tag |-> "Some", st |-> s, bytes |-> << >>]
MainOk(b) == [tag |-> "Ok", st |-> NoStatus, bytes |-> b]
MainErr(s) == [tag |-> "Err", st |-> s, bytes |-> << >>]
MainNotRun == [tag |-> "notrun", st |-> NoStatus, bytes |-> << >>]

BootMainResults == {MainNone} \cup {MainSome(s) : s \in Statuses}
FsMainResults == {MainOk(b) : b \in ByteVecs} \cup {MainErr(s) : s \in Statuses}

\* results of BootDriver::invoke and FSDriver::invoke; Fault stands for an
\* invoke that never returns because the read through outptr trapped
InvNone == [tag |-> "None", inner |-> "none", st |-> NoStatus, bytes |-> << >>]
InvSome(r) == [tag |-> "Some", inner |-> r.tag, st |-> r.st, bytes |-> << >>]
InvOk(b) == [tag |-> "Ok", inner |-> "none", st |-> NoStatus, bytes |-> b]
InvErr(r) == [tag |-> "Err", inner |-> r.tag, st |-> r.st, bytes |-> << >>]
InvFault == [tag |-> "Fault", inner |-> "none", st |-> NoStatus, bytes |-> << >>]
InvPending == [tag |-> "pending", inner |-> "none", st |-> NoStatus, bytes |-> << >>]


(***************************************************************************)
(* The firmware memory map and page allocation.                            *)
(***************************************************************************)
\* DriverIO::page_count
page_count == (SIZE_OF_DRIVERIO + PAGE_SIZE - 1) \div PAGE_SIZE

\* pages the fs prelude asks for a file of len bytes
OutputPages(len) == (len + SIZE_OF_USIZE + PAGE_SIZE - 1) \div PAGE_SIZE

InsertAt(s, pos, e) == SubSeq(s, 1, pos - 1) \o <<e>> \o SubSeq(s, pos, Len(s))

\* allocate_pages(AnyPages, ..): a region nobody holds yet; regions are never freed
FreshAddr(map) == Len(map) + 1

\* the map after allocate_pages. The firmware picks the address of an
\* AnyPages allocation and the order in which memory_map() enumerates the
\* descriptors; neither is fixed by the caller, so the new entry may stand
\* before the entries there are or after them
Positions == {"first", "last"}

AllocatePages(map, ty, pages, pos) ==
  InsertAt(map, IF pos = "first" THEN 1 ELSE Len(map) + 1,
           [ty |-> ty, phys_start |-> FreshAddr(map), pages |-> pages])

RegionsOf(map, ty) == {i \in 1..Len(map) : map[i].ty = ty}

(***************************************************************************)
(* driver.rs, io.rs                                                        *)
(***************************************************************************)
RECURSIVE ScanFrom(_, _, _)
ScanFrom(map, memtype, i) ==
  IF i > Len(map) THEN 0
  ELSE IF map[i].ty = memtype THEN i
  ELSE ScanFrom(map, memtype, i + 1)

\* find_io_memory taking the first channel region of either tag
find_io_memory_any_tag(map, memtype, driver_io) ==
  LET hits == {i \in 1..Len(map) :
                 map[i].ty \in {BOOT_DRIVER_IO_MEMTYPE, FSYS_DRIVER_IO_MEMTYPE}}
  IN  IF hits # {}
      THEN [status |-> SUCCESS,
            DRIVER_IO |-> map[CHOOSE i \in hits : \A j \in hits : i <= j].phys_start]
      ELSE [status |-> NOT_FOUND, DRIVER_IO |-> driver_io]

\* find_io_memory recording the last matching entry
find_io_memory_last_match(map, memtype, driver_io) ==
  LET hits == {i \in 1..Len(map) : map[i].ty = memtype}
  IN  IF hits # {}
      THEN [status |-> SUCCESS,
            DRIVER_IO |-> map[CHOOSE i \in hits : \A j \in hits : i >= j].phys_start]
      ELSE [status |-> NOT_FOUND, DRIVER_IO |-> driver_io]

\* the returned status and the value of the static afterwards
find_io_memory(map, memtype, driver_io) ==
  LET i == ScanFrom(map, memtype, 1)
  IN  IF i # 0
      THEN [status |-> SUCCESS, DRIVER_IO |-> map[i].phys_start]
      ELSE [status |-> NOT_FOUND, DRIVER_IO |-> driver_io]

\* NULL stands for None
allocated_driver_io(driver_io) == driver_io

(***************************************************************************)
(* boot/mod.rs, fs/mod.rs: the invoker side.                               *)
(***************************************************************************)
new_dio_outptr_set(args) == [inptr |-> args, outptr |-> args]

\* the DriverIO local both invoke wrappers build
new_dio(args) == [inptr |-> args, outptr |-> NULL]

\* BootDriver::invoke without the is_success test
BootDriver_invoke_no_status_test(invoke_status) ==
  IF invoke_status.tag = "Ok" THEN InvNone ELSE InvSome(invoke_status)

BootDriver_invoke(invoke_status) ==
  IF invoke_status.tag = "Ok" /\ is_success(invoke_status.st)
  THEN InvNone
  ELSE InvSome(invoke_status)

\* slice::from_raw_parts(outptr + 8, *(outptr as *usize)) on an output region
ReadSlice(buf) ==
  [i \in 1..buf.size |-> IF i <= Len(buf.data) THEN buf.data[i] ELSE 0]

\* whether FSDriver::invoke reads through dio.outptr
FSDriver_reads_outptr(invoke_status) ==
  invoke_status.tag = "Ok" /\ is_success(invoke_status.st)

\* ub: what the read yields when outptr points at no populated output region
FSDriver_invoke(invoke_status, d, bufs, ub) ==
  IF FSDriver_reads_outptr(invoke_status)
  THEN IF d.outptr \in DOMAIN bufs THEN InvOk(ReadSlice(bufs[d.outptr])) ELSE ub
  ELSE InvErr(invoke_status)

UBOutcomes == {InvFault} \cup {InvOk(b) : b \in ByteVecs}

(***************************************************************************)
(* boot/mod.rs, fs/mod.rs: the preludes.                                   *)
(***************************************************************************)
\* _entry without the early return
prelude_never_returns_early(find_io_mem_status) == FALSE

\* the early return of _entry after the scan
prelude_returns_early(find_io_mem_status) == is_error(find_io_mem_status)

\* the boot prelude reporting success whatever main returned
boot_prelude_return_always_success(main_status) == SUCCESS

boot_prelude_return(main_status) ==
  IF main_status.tag = "None" THEN SUCCESS ELSE main_status.st

\* the fs prelude allocating an (empty) output region on Err as well
fs_prelude_return_alloc_on_err(main_status) ==
  IF main_status.tag = "Ok"
  THEN [ret |-> SUCCESS, alloc |-> TRUE,
        pages |-> OutputPages(Len(main_status.bytes)),
        size |-> Len(main_status.bytes), data |-> main_status.bytes]
  ELSE [ret |-> main_status.st, alloc |-> TRUE, pages |-> OutputPages(0),
        size |-> 0, data |-> << >>]

\* what the fs prelude does with main's result: the status it returns and
\* the output region it allocates and fills
fs_prelude_return(main_status) ==
  IF main_status.tag = "Ok"
  THEN [ret |-> SUCCESS, alloc |-> TRUE,
        pages |-> OutputPages(Len(main_status.bytes)),
        size |-> Len(main_status.bytes), data |-> main_status.bytes]
  ELSE [ret |-> main_status.st, alloc |-> FALSE, pages |-> 0, size |-> 0, data |-> << >>]


(***************************************************************************)
(* State of one image start.                                               *)
(***************************************************************************)
CurNone ==
  [kind |-> "none", via |-> "none", args |-> 0, fresh |-> NULL,
   locateSt |-> NoStatus, located |-> NULL,
   mainCalled |-> FALSE, mainArgs |-> 0, mainRes |-> MainNotRun,
   outAlloc |-> NULL, entryRet |-> NoStatus,
   primRes |-> PrimNone, outRead |-> FALSE, invRes |-> InvPending]

NoListing == [tag |-> "none", st |-> NoStatus, drivers |-> << >>, checked |-> << >>]

ProtoInit ==
  /\ memmap = <<[ty |-> LOADER_CODE, phys_start |-> 1, pages |-> 1]>>
  /\ chan = << >>
  /\ outbuf = << >>
  /\ DRIVER_IO = [k \in Kinds |-> NULL]
  /\ loaded = [k \in Kinds |-> FALSE]
  /\ pc = "idle"
  /\ dio = new_dio(NULL)
  /\ cur = CurNone
  /\ starts = 0

(***************************************************************************)
(* Driver::load, Driver::unload and Driver::invoke, the invocation         *)
(* primitive under the BootDriver and FSDriver wrappers.                   *)
(***************************************************************************)
\* load(): the image is loaded anew, its statics initialised
Load(kind) ==
  /\ pc = "idle"
  /\ ~loaded[kind]
  /\ loaded' = [loaded EXCEPT ![kind] = TRUE]
  /\ DRIVER_IO' = [DRIVER_IO EXCEPT ![kind] = NULL]
  /\ UNCHANGED <<memmap, chan, outbuf, pc, dio, cur, starts, discVars, diskVars>>

Unload(kind) ==
  /\ pc = "idle"
  /\ loaded[kind]
  /\ loaded' = [loaded EXCEPT ![kind] = FALSE]
  /\ UNCHANGED <<memmap, chan, outbuf, DRIVER_IO, pc, dio, cur, starts, discVars, diskVars>>

\* BootDriver::invoke / FSDriver::invoke up to the start of the image: the
\* wrapper builds dio, the primitive allocates a fresh region under the
\* kind's tag, copies dio into it and starts the image
Invoke(kind, args, pos) ==
  /\ pc = "idle"
  /\ loaded[kind]
  /\ starts < MaxStarts
  /\ pos \in Positions
  /\ dio' = new_dio(args)
  /\ memmap' = AllocatePages(memmap, MemTypeOf(kind), page_count, pos)
  /\ chan' = chan @@ (FreshAddr(memmap) :> dio')
  /\ cur' = [CurNone EXCEPT !.kind = kind, !.via = "invoke", !.args = args,
                            !.fresh = FreshAddr(memmap)]
  /\ starts' = starts + 1
  /\ pc' = "entry"
  /\ UNCHANGED <<outbuf, DRIVER_IO, loaded, discVars, diskVars>>

\* the image could not be started: the primitive returns Err(status)
InvokeFails(kind, args, s) ==
  /\ pc = "idle"
  /\ loaded[kind]
  /\ s \in ErrorStatuses
  /\ dio' = new_dio(args)
  /\ cur' = [CurNone EXCEPT !.kind = kind, !.via = "invoke", !.args = args,
                            !.primRes = PrimErr(s)]
  /\ pc' = "returning"
  /\ UNCHANGED <<memmap, chan, outbuf, DRIVER_IO, loaded, starts, discVars, diskVars>>

\* a driver image started without being invoked through a channel
StartDirect(kind) ==
  /\ pc = "idle"
  /\ ~loaded[kind]
  /\ starts < MaxStarts
  /\ DRIVER_IO' = [DRIVER_IO EXCEPT ![kind] = NULL]
  /\ cur' = [CurNone EXCEPT !.kind = kind, !.via = "direct"]
  /\ starts' = starts + 1
  /\ pc' = "entry"
  /\ UNCHANGED <<memmap, chan, outbuf, loaded, dio, discVars, diskVars>>

\* the started image returned: the primitive hands back Ok(status) and the
\* channel's contents
ImageExit ==
  /\ pc = "exited"
  /\ IF cur.via = "invoke"
     THEN /\ cur' = [cur EXCEPT !.primRes = PrimOk(cur.entryRet)]
          /\ dio' = chan[cur.fresh]
          /\ pc' = "returning"
     ELSE /\ pc' = "done"
          /\ UNCHANGED <<cur, dio>>
  /\ UNCHANGED <<memmap, chan, outbuf, DRIVER_IO, loaded, starts, discVars, diskVars>>

(***************************************************************************)
(* The preludes, running inside the started image.                         *)
(***************************************************************************)
\* _entry up to the early return: the scan for the kind's tag
PreludeLocate ==
  /\ pc = "entry"
  /\ LET r == find_io_memory(memmap, MemTypeOf(cur.kind), DRIVER_IO[cur.kind])
     IN  /\ DRIVER_IO' = [DRIVER_IO EXCEPT ![cur.kind] = r.DRIVER_IO]
         /\ IF prelude_returns_early(r.status)
            THEN /\ cur' = [cur EXCEPT !.locateSt = r.status, !.entryRet = r.status]
                 /\ pc' = "exited"
            ELSE /\ cur' = [cur EXCEPT !.locateSt = r.status]
                 /\ pc' = "main"
  /\ UNCHANGED <<memmap, chan, outbuf, loaded, dio, starts, discVars, diskVars>>

\* allocated_driver_io().unwrap() on None and as_ref().unwrap() on a null
\* inptr panic: the image aborts
PreludePanics ==
  \/ allocated_driver_io(DRIVER_IO[cur.kind]) = NULL
  \/ allocated_driver_io(DRIVER_IO[cur.kind]) \notin DOMAIN chan
  \/ chan[allocated_driver_io(DRIVER_IO[cur.kind])].inptr = NULL

\* boot _entry from the unwrap of the channel on: main runs on the
\* arguments behind inptr
BootPreludeMain(main_status) ==
  /\ pc = "main"
  /\ cur.kind = "boot"
  /\ main_status \in BootMainResults
  /\ IF PreludePanics
     THEN /\ pc' = "panic"
          /\ UNCHANGED cur
     ELSE LET d == allocated_driver_io(DRIVER_IO["boot"])
          IN  /\ cur' = [cur EXCEPT !.located = d, !.mainCalled = TRUE,
                                    !.mainArgs = chan[d].inptr,
                                    !.mainRes = main_status,
                                    !.entryRet = boot_prelude_return(main_status)]
              /\ pc' = "exited"
  /\ UNCHANGED <<memmap, chan, outbuf, DRIVER_IO, loaded, dio, starts, discVars, diskVars>>

\* fs _entry from the unwrap of the channel on
FsPreludeMain(main_status, pos) ==
  /\ pc = "main"
  /\ cur.kind = "fs"
  /\ main_status \in FsMainResults
  /\ pos \in Positions
  /\ IF PreludePanics
     THEN /\ pc' = "panic"
          /\ UNCHANGED <<cur, memmap, chan, outbuf>>
     ELSE LET d == allocated_driver_io(DRIVER_IO["fs"])
              r == fs_prelude_return(main_status)
              vecptr == FreshAddr(memmap)
          IN  /\ pc' = "exited"
              /\ IF r.alloc
                 THEN /\ memmap' = AllocatePages(memmap, LOADER_DATA, r.pages, pos)
                      /\ outbuf' = outbuf @@ (vecptr :> [size |-> r.size, data |-> r.data])
                      /\ chan' = [chan EXCEPT ![d].outptr = vecptr]
                 ELSE UNCHANGED <<memmap, chan, outbuf>>
              /\ cur' = [cur EXCEPT !.located = d, !.mainCalled = TRUE,
                                    !.mainArgs = chan[d].inptr,
                                    !.mainRes = main_status,
                                    !.outAlloc = IF r.alloc THEN vecptr ELSE NULL,
                                    !.entryRet = r.ret]
  /\ UNCHANGED <<DRIVER_IO, loaded, dio, starts, discVars, diskVars>>

(***************************************************************************)
(* The invoke wrappers after the primitive returned.                       *)
(***************************************************************************)
BootInvokeReturn ==
  /\ pc = "returning"
  /\ cur.kind = "boot"
  /\ cur' = [cur EXCEPT !.invRes = BootDriver_invoke(cur.primRes)]
  /\ pc' = "done"
  /\ UNCHANGED <<memmap, chan, outbuf, DRIVER_IO, loaded, dio, starts, discVars, diskVars>>

FsInvokeReturn(ub) ==
  /\ pc = "returning"
  /\ cur.kind = "fs"
  /\ ub \in UBOutcomes
  /\ cur' = [cur EXCEPT !.invRes = FSDriver_invoke(cur.primRes, dio, outbuf, ub),
                        !.outRead = FSDriver_reads_outptr(cur.primRes)]
  /\ pc' = "done"
  /\ UNCHANGED <<memmap, chan, outbuf, DRIVER_IO, loaded, dio, starts, discVars, diskVars>>

\* the caller goes on: the frame of the finished invoke is gone
Resume ==
  /\ pc = "done"
  /\ pc' = "idle"
  /\ cur' = CurNone
  /\ dio' = new_dio(NULL)
  /\ UNCHANGED <<memmap, chan, outbuf, DRIVER_IO, loaded, starts, discVars, diskVars>>

(***************************************************************************)
(* wakatiwai/mod.rs: driver discovery.                                     *)
(***************************************************************************)
\* file names are sequences of characters
Name_a_efi == <<"a", ".", "e", "f", "i">>
Name_b_txt == <<"b", ".", "t", "x", "t">>
Name_c_efi == <<"c", ".", "e", "f", "i">>
Name_d_EFI == <<"d", ".", "E", "F", "I">>
Name_efi == <<"e", "f", "i">>
FileNames == {Name_a_efi, Name_b_txt, Name_c_efi, Name_d_EFI, Name_efi}

EFI_SUFFIX == <<".", "e", "f", "i">>

\* str::ends_with
ends_with(name, suffix) ==
  /\ Len(name) >= Len(suffix)
  /\ SubSeq(name, Len(name) - Len(suffix) + 1, Len(name)) = suffix

\* handle: the FileInfo behind the handle, [name, regular]
is_valid_driver(handle) ==
  IF ~handle.regular THEN FALSE
  ELSE IF ~ends_with(handle.name, EFI_SUFFIX) THEN FALSE
  ELSE FALSE

ListOk(drivers, checked) ==
  [tag |-> "Ok", st |-> NoStatus, drivers |-> drivers, checked |-> checked]
ListErr(s, checked) ==
  [tag |-> "Err", st |-> s, drivers |-> << >>, checked |-> checked]
ListPanic == [tag |-> "Panic", st |-> NoStatus, drivers |-> << >>, checked |-> << >>]

\* the loop of get_driver_files_from_dir from the i-th read_entry_boxed on;
\* directory: [entries, readFailAt, openFailAt, ..], the 0 index for no
\* failure; checked records each call of is_valid_driver
RECURSIVE get_driver_files_loop(_, _, _, _)
get_driver_files_loop(directory, i, drivers, checked) ==
  IF directory.readFailAt = i THEN ListOk(drivers, checked)
  ELSE IF i > Len(directory.entries) THEN ListOk(drivers, checked)
  ELSE LET ent == directory.entries[i]
           seen == Append(checked, [name |-> ent.name, regular |-> ent.regular,
                                    valid |-> is_valid_driver(ent)])
       IN  IF directory.openFailAt = i THEN ListErr(directory.failSt, checked)
           ELSE IF ~is_valid_driver(ent)
                THEN get_driver_files_loop(directory, i + 1, drivers, seen)
                ELSE get_driver_files_loop(directory, i + 1,
                       Append(drivers, [name |-> ent.name, driver_type |-> "None"]), seen)

get_driver_files_from_dir(directory) ==
  get_driver_files_loop(directory, 1, << >>, << >>)

WrapDrivers(r, ty) ==
  IF r.tag = "Ok"
  THEN [r EXCEPT !.drivers = [j \in 1..Len(r.drivers) |->
                                [r.drivers[j] EXCEPT !.driver_type = ty]]]
  ELSE r

\* directory.openTop / openSub: the status of opening the driver directory
\* and the boot or fs subdirectory
get_boot_drivers(directory) ==
  IF directory.openTop # SUCCESS THEN ListPanic
  ELSE IF directory.openSub # SUCCESS THEN ListErr(directory.openSub, << >>)
  ELSE WrapDrivers(get_driver_files_from_dir(directory), "BOOT")

get_fs_drivers(directory) ==
  IF directory.openTop # SUCCESS THEN ListErr(directory.openTop, << >>)
  ELSE IF directory.openSub # SUCCESS THEN ListErr(directory.openSub, << >>)
  ELSE WrapDrivers(get_driver_files_from_dir(directory), "FS")

\* directory contents: entries with distinct names
RECURSIVE EntrySeqs(_)
EntrySeqs(n) ==
  IF n = 0 THEN {<< >>}
  ELSE LET shorter == EntrySeqs(n - 1)
           longest == {t \in shorter : Len(t) = n - 1}
           Fresh(t, nm) == \A j \in 1..Len(t) : t[j].name # nm
       IN  shorter \cup
           {Append(x[1], [name |-> x[2], regular |-> x[3]]) :
              x \in {y \in longest \X FileNames \X BOOLEAN : Fresh(y[1], y[2])}}

OpenStatuses == {SUCCESS, NOT_FOUND}

Directories ==
  {d \in [entries : EntrySeqs(MaxEntries),
          readFailAt : 0..(MaxEntries + 1), openFailAt : 0..MaxEntries,
          failSt : {"LOAD_ERROR"}, openTop : OpenStatuses, openSub : OpenStatuses] :
     /\ d.readFailAt <= Len(d.entries) + 1
     /\ d.openFailAt <= Len(d.entries)}

NoDirectory ==
  [entries |-> << >>, readFailAt |-> 0, openFailAt |-> 0, failSt |-> "LOAD_ERROR",
   openTop |-> SUCCESS, openSub |-> SUCCESS]

\* the names asked for: the file names and one differing from a.efi in case
Name_A_efi == <<"A", ".", "e", "f", "i">>
WantedNames == FileNames \cup {Name_A_efi}

LookOk(found) == [tag |-> "Ok", st |-> NoStatus, found |-> found]
LookErr(s) == [tag |-> "Err", st |-> s, found |-> << >>]
LookPanic == [tag |-> "Panic", st |-> NoStatus, found |-> << >>]
NoLookup == [tag |-> "none", st |-> NoStatus, found |-> << >>, kind |-> "none", want |-> << >>]

\* the loop over the listing: the first driver whose name() equals
\* driver_name; found is << >> for None and <<driver>> for Some(driver)
RECURSIVE first_named(_, _, _)
first_named(drivers, driver_name, j) ==
  IF j > Len(drivers) THEN LookOk(<< >>)
  ELSE IF drivers[j].name = driver_name THEN LookOk(<<drivers[j]>>)
  ELSE first_named(drivers, driver_name, j + 1)

get_boot_driver(directory, driver_name) ==
  LET boot_drivers == get_boot_drivers(directory)
  IN  IF boot_drivers.tag = "Panic" THEN LookPanic
      ELSE IF boot_drivers.tag = "Err" THEN LookErr(boot_drivers.st)
      ELSE first_named(boot_drivers.drivers, driver_name, 1)

get_fs_driver(directory, driver_name) ==
  LET fs_drivers == get_fs_drivers(directory)
  IN  IF fs_drivers.tag = "Panic" THEN LookPanic
      ELSE IF fs_drivers.tag = "Err" THEN LookErr(fs_drivers.st)
      ELSE first_named(fs_drivers.drivers, driver_name, 1)

\* no DiskReader operation in the channel protocol and in discovery
NoBuild == [overflow_checks |-> FALSE]
NoReader == [made |-> FALSE]
NoIo == [op |-> "none"]

DiskIdle ==
  /\ build = NoBuild
  /\ reader = NoReader
  /\ io = NoIo

DiscInit ==
  /\ ProtoInit
  /\ dir \in Directories
  /\ listed = NoListing
  /\ looked = NoLookup
  /\ DiskIdle

ListBootDrivers ==
  /\ listed' = get_boot_drivers(dir)
  /\ looked' = NoLookup
  /\ UNCHANGED <<dir, protoVars, diskVars>>

ListFsDrivers ==
  /\ listed' = get_fs_drivers(dir)
  /\ looked' = NoLookup
  /\ UNCHANGED <<dir, protoVars, diskVars>>

LookupBootDriver(driver_name) ==
  /\ looked' = get_boot_driver(dir, driver_name) @@
                [kind |-> "boot", want |-> driver_name]
  /\ listed' = NoListing
  /\ UNCHANGED <<dir, protoVars, diskVars>>

LookupFsDriver(driver_name) ==
  /\ looked' = get_fs_driver(dir, driver_name) @@
                [kind |-> "fs", want |-> driver_name]
  /\ listed' = NoListing
  /\ UNCHANGED <<dir, protoVars, diskVars>>

DiscNext ==
  \/ ListBootDrivers
  \/ ListFsDrivers
  \/ \E n \in WantedNames : LookupBootDriver(n)
  \/ \E n \in WantedNames : LookupFsDriver(n)

SpecDisc == DiscInit /\ [][DiscNext]_vars

ProtoNext ==
  \/ \E kind \in Kinds : Load(kind)
  \/ \E kind \in Kinds : Unload(kind)
  \/ \E kind \in Kinds, args \in ArgPtrs, pos \in Positions : Invoke(kind, args, pos)
  \/ \E kind \in Kinds, args \in ArgPtrs, s \in ErrorStatuses : InvokeFails(kind, args, s)
  \/ \E kind \in Kinds : StartDirect(kind)
  \/ PreludeLocate
  \/ \E m \in BootMainResults : BootPreludeMain(m)
  \/ \E m \in FsMainResults, pos \in Positions : FsPreludeMain(m, pos)
  \/ ImageExit
  \/ BootInvokeReturn
  \/ \E ub \in UBOutcomes : FsInvokeReturn(ub)
  \/ Resume

Init ==
  /\ ProtoInit
  /\ dir = NoDirectory
  /\ listed = NoListing
  /\ looked = NoLookup
  /\ DiskIdle

Next == ProtoNext

Spec == Init /\ [][Next]_vars


(***************************************************************************)
(* Properties.                                                             *)
(***************************************************************************)
BootInvokeDone == pc = "done" /\ cur.kind = "boot" /\ cur.via = "invoke"
FsInvokeDone == pc = "done" /\ cur.kind = "fs" /\ cur.via = "invoke"

\* C1: BootDriver::invoke returns None when the primitive returned Ok with
\* a success status, Some(Ok(status)) when it returned Ok with any other
\* status, and Some(Err(status)) when it returned Err, with the status
\* unchanged.
C1_BootInvokeThreeWay ==
  BootInvokeDone =>
    /\ (cur.primRes.tag = "Ok" /\ cur.primRes.st = SUCCESS) => cur.invRes = InvNone
    /\ (cur.primRes.tag = "Ok" /\ cur.primRes.st # SUCCESS) =>
         /\ cur.invRes.tag = "Some" /\ cur.invRes.inner = "Ok"
         /\ cur.invRes.st = cur.primRes.st
    /\ cur.primRes.tag = "Err" =>
         /\ cur.invRes.tag = "Some" /\ cur.invRes.inner = "Err"
         /\ cur.invRes.st = cur.primRes.st

\* a boot driver ran, reported a warning status, and invoke returned it
C1_Witness ==
  /\ BootInvokeDone
  /\ cur.primRes = PrimOk("WARN_DELETE_FAILURE")
  /\ cur.invRes = InvSome(PrimOk("WARN_DELETE_FAILURE"))

\* C2: FSDriver::invoke returns Ok(bytes) when the primitive returned Ok
\* with a success status, Err(Ok(status)) when it returned Ok with any other
\* status and Err(Err(status)) when it returned Err; the output pointer is
\* read in the first case only.
C2_FsInvokeThreeWay ==
  FsInvokeDone =>
    /\ (cur.primRes.tag = "Ok" /\ cur.primRes.st = SUCCESS) => cur.invRes.tag = "Ok"
    /\ (cur.primRes.tag = "Ok" /\ cur.primRes.st # SUCCESS) =>
         /\ cur.invRes.tag = "Err" /\ cur.invRes.inner = "Ok"
         /\ cur.invRes.st = cur.primRes.st
         /\ ~cur.outRead
    /\ cur.primRes.tag = "Err" =>
         /\ cur.invRes.tag = "Err" /\ cur.invRes.inner = "Err"
         /\ cur.invRes.st = cur.primRes.st
         /\ ~cur.outRead

\* C3: when the fs driver's main returned Ok(B), the slice FSDriver::invoke
\* returns equals B (so has B's length), read from the output region whose
\* address the prelude stored in outptr.
C3_FsRoundTrip ==
  (FsInvokeDone /\ cur.mainCalled /\ cur.mainRes.tag = "Ok") =>
    /\ cur.invRes = InvOk(cur.mainRes.bytes)
    /\ Len(cur.invRes.bytes) = Len(cur.mainRes.bytes)
    /\ dio.outptr = cur.outAlloc

BootPreludeRan ==
  /\ pc \in {"exited", "returning", "done"}
  /\ cur.kind = "boot"
  /\ cur.mainCalled

\* C4 as stated: the boot prelude returns success exactly when main
\* returned None and returns s when main returned Some(s); BootDriver::invoke
\* yields Some(Ok(s)) for every Some(s) of main, and None only when main
\* returned None.
C4_BootOutcome_AsStated ==
  /\ BootPreludeRan =>
       /\ (cur.entryRet = SUCCESS) <=> (cur.mainRes.tag = "None")
       /\ cur.mainRes.tag = "Some" => cur.entryRet = cur.mainRes.st
  /\ BootInvokeDone =>
       /\ (cur.mainCalled /\ cur.mainRes.tag = "Some") =>
            cur.invRes = InvSome(PrimOk(cur.mainRes.st))
       /\ cur.invRes = InvNone => (cur.mainCalled /\ cur.mainRes.tag = "None")

\* C4 amended: the boot prelude returns success when main returned None and
\* s when main returned Some(s), so success exactly when main returned None
\* or Some(SUCCESS); BootDriver::invoke yields Some(Ok(s)) for every
\* non-success s main returned as Some(s), and None exactly when main
\* returned None or Some(SUCCESS).
C4_BootOutcome ==
  /\ BootPreludeRan =>
       /\ cur.mainRes.tag = "None" => cur.entryRet = SUCCESS
       /\ cur.mainRes.tag = "Some" => cur.entryRet = cur.mainRes.st
       /\ (cur.entryRet = SUCCESS) <=> (cur.mainRes \in {MainNone, MainSome(SUCCESS)})
  /\ BootInvokeDone =>
       /\ (cur.mainCalled /\ cur.mainRes.tag = "Some" /\ cur.mainRes.st # SUCCESS) =>
            cur.invRes = InvSome(PrimOk(cur.mainRes.st))
       /\ (cur.invRes = InvNone) <=>
            (cur.mainCalled /\ cur.mainRes \in {MainNone, MainSome(SUCCESS)})

\* main reported a boot failure and the invoker sees Some(Ok(status))
C4_Witness ==
  /\ BootInvokeDone
  /\ cur.mainRes = MainSome("LOAD_ERROR")
  /\ cur.invRes = InvSome(PrimOk("LOAD_ERROR"))

\* C5: the step of the fs prelude in which main returns Err(s) returns s,
\* allocates nothing and writes no outptr; the outptr of the invocation's
\* channel is still null.
C5_FsErrVerbatim ==
  [][(pc = "main" /\ cur.kind = "fs" /\ cur'.mainCalled /\ cur'.mainRes.tag = "Err") =>
       /\ cur'.entryRet = cur'.mainRes.st
       /\ cur'.outAlloc = NULL
       /\ memmap' = memmap
       /\ outbuf' = outbuf
       /\ chan' = chan
       /\ cur.via = "invoke" => chan'[cur.fresh].outptr = NULL]_vars

\* the fs prelude returned an error status of main
C5_Witness ==
  /\ pc = "exited"
  /\ cur.kind = "fs"
  /\ cur.via = "invoke"
  /\ cur.mainRes = MainErr("LOAD_ERROR")
  /\ cur.entryRet = "LOAD_ERROR"

\* the entry point of the started image has run its scan
EntryScanned ==
  /\ pc \in {"main", "panic", "exited", "returning", "done"}
  /\ cur.via # "none"
  /\ cur.primRes.tag # "Err"

\* C6: when the map holds no region of the prelude's tag, the prelude
\* returns NOT_FOUND at once, without calling main or allocating an output
\* region; main is called only after a successful scan, on a region of the
\* tag.
C6_LocateFailureFatal ==
  /\ (EntryScanned /\ RegionsOf(memmap, MemTypeOf(cur.kind)) = {}) =>
       /\ pc \in {"exited", "returning", "done"}
       /\ cur.locateSt = NOT_FOUND
       /\ cur.entryRet = NOT_FOUND
       /\ ~cur.mainCalled
       /\ cur.outAlloc = NULL
  /\ (EntryScanned /\ cur.locateSt = NOT_FOUND) =>
       /\ cur.entryRet = NOT_FOUND
       /\ ~cur.mainCalled
       /\ cur.outAlloc = NULL
  /\ cur.mainCalled =>
       /\ cur.locateSt = SUCCESS
       /\ \E i \in RegionsOf(memmap, MemTypeOf(cur.kind)) :
            memmap[i].phys_start = cur.located

\* an fs image started with only a boot channel in the map returns NOT_FOUND
C6_Witness ==
  /\ pc = "exited"
  /\ cur.kind = "fs"
  /\ cur.locateSt = NOT_FOUND
  /\ cur.entryRet = NOT_FOUND
  /\ RegionsOf(memmap, BOOT_DRIVER_IO_MEMTYPE) # {}
  /\ RegionsOf(memmap, FSYS_DRIVER_IO_MEMTYPE) = {}

TypeAt(addr) ==
  {memmap[i].ty : i \in {j \in 1..Len(memmap) : memmap[j].phys_start = addr}}

\* C7: a scan records only a region whose type is the requested tag: the
\* channel a driver image has recorded is a region of its own tag, and on
\* every reachable map a scan for either tag succeeds only with a region of
\* that tag, also when regions of both tags are present.
C7_TagIsolation ==
  /\ \A k \in Kinds :
       DRIVER_IO[k] # NULL => TypeAt(DRIVER_IO[k]) = {MemTypeOf(k)}
  /\ \A k \in Kinds :
       LET r == find_io_memory(memmap, MemTypeOf(k), NULL)
       IN  /\ r.status = SUCCESS => TypeAt(r.DRIVER_IO) = {MemTypeOf(k)}
           /\ r.status = NOT_FOUND <=> RegionsOf(memmap, MemTypeOf(k)) = {}

\* the fs prelude found its channel although a boot channel stands before
\* it in the map
C7_Witness ==
  /\ pc = "main"
  /\ cur.kind = "fs"
  /\ DRIVER_IO["fs"] # NULL
  /\ RegionsOf(memmap, BOOT_DRIVER_IO_MEMTYPE) # {}
  /\ \E i \in RegionsOf(memmap, BOOT_DRIVER_IO_MEMTYPE) :
       \A j \in RegionsOf(memmap, FSYS_DRIVER_IO_MEMTYPE) : i < j

\* C8: the memory map holds at most one channel region per tag.
C8_SingleChannelPerTag ==
  \A k \in Kinds : Cardinality(RegionsOf(memmap, MemTypeOf(k))) <= 1

NamesOf(seq) == [j \in 1..Len(seq) |-> seq[j].name]

\* C9: is_valid_driver returns true exactly for the regular files whose
\* name ends in ".efi".
C9_Validation ==
  \A j \in 1..Len(listed.checked) :
    listed.checked[j].valid <=>
      (listed.checked[j].regular /\ ends_with(listed.checked[j].name, EFI_SUFFIX))

RECURSIVE ExpectedDrivers(_)
ExpectedDrivers(entries) ==
  IF entries = << >> THEN << >>
  ELSE LET e == Head(entries)
       IN  IF e.regular /\ ends_with(e.name, EFI_SUFFIX)
           THEN <<e.name>> \o ExpectedDrivers(Tail(entries))
           ELSE ExpectedDrivers(Tail(entries))

\* C10: a listing of a directory that enumerates without failure returns
\* one driver per regular file with the ".efi" suffix, named after the file,
\* in enumeration order, and nothing else.
C10_Listing ==
  (listed.tag = "Ok" /\ dir.readFailAt = 0) =>
    NamesOf(listed.drivers) = ExpectedDrivers(dir.entries)

(***************************************************************************)
(* disk.rs: DiskReader.  u64 and usize values are little-endian sequences  *)
(* of LIMBS digits in base LIMB_BASE, so that the 64-bit width is kept.    *)
(***************************************************************************)
LIMB_BASE == 256
LIMBS == 8
WIDE == 16

Limb(i, v) == [j \in 1..LIMBS |-> IF j = i THEN v ELSE 0]

\* the digits of a natural below 2^31
RECURSIVE ToLimbs(_, _)
ToLimbs(n, k) ==
  IF k = 0 THEN << >> ELSE <<n % LIMB_BASE>> \o ToLimbs(n \div LIMB_BASE, k - 1)

\* u32 as u64 / usize: a zero-extension
Widen(n) == ToLimbs(n, LIMBS)

Pad(x, k) == [j \in 1..k |-> IF j <= Len(x) THEN x[j] ELSE 0]

\* carry propagation over column sums; the result has Len(cols) + 1 digits
RECURSIVE Carry(_, _, _)
Carry(cols, j, carry) ==
  IF j > Len(cols) THEN <<carry>>
  ELSE <<(cols[j] + carry) % LIMB_BASE>> \o
       Carry(cols, j + 1, (cols[j] + carry) \div LIMB_BASE)

\* the mathematical sum and product of two 64-bit values, WIDE + 1 digits
AddExact(a, b) == Carry([j \in 1..WIDE |-> Pad(a, WIDE)[j] + Pad(b, WIDE)[j]], 1, 0)

RECURSIVE ColumnSum(_, _, _, _)
ColumnSum(a, b, k, i) ==
  IF i > LIMBS THEN 0
  ELSE (IF k + 1 - i \in 1..LIMBS THEN a[i] * b[k + 1 - i] ELSE 0) +
       ColumnSum(a, b, k, i + 1)

MulExact(a, b) == Carry([k \in 1..WIDE |-> ColumnSum(a, b, k, 1)], 1, 0)

Fits64(x) == \A j \in (LIMBS + 1)..Len(x) : x[j] = 0

\* `+` and `*` on u64 / usize: with overflow checks the operation panics on
\* overflow, without them it wraps
add64(a, b, b_checks) ==
  LET exact == AddExact(a, b)
  IN  [panic |-> b_checks /\ ~Fits64(exact), val |-> SubSeq(exact, 1, LIMBS)]

mul64(a, b, b_checks) ==
  LET exact == MulExact(a, b)
  IN  [panic |-> b_checks /\ ~Fits64(exact), val |-> SubSeq(exact, 1, LIMBS)]

U64_ZERO == Limb(1, 0)
U64_ONE == Limb(1, 1)
U64_MAX == [j \in 1..LIMBS |-> LIMB_BASE - 1]
\* 2^55 and 2^55 + 1
U64_HIGH == Limb(LIMBS - 1, LIMB_BASE \div 2)
U64_HIGH_1 == [U64_HIGH EXCEPT ![1] = 1]

\* count > isize::MAX
ExceedsIsizeMax(count) == count[LIMBS] >= LIMB_BASE \div 2

\* vec![0; count]: a panic when count exceeds isize::MAX or when the
\* allocator has no memory for a buffer of count > 0 bytes
AllocationFails(count, alloc_ok) ==
  ExceedsIsizeMax(count) \/ (count # U64_ZERO /\ ~alloc_ok)

\* inputs
AbsOffsets == {U64_ZERO, Widen(1048576), U64_MAX}
Indices == {U64_ZERO, Widen(3), U64_HIGH, U64_MAX}
Counts == {U64_ZERO, Widen(2), U64_HIGH_1, U64_MAX}
MediaIds == {1, 7}
BlockSizes == {512, 520, 4096}
Ratios == {0, 1, 3, 8, 1024}
LastBlocks == {Widen(2047)}

DiskReader_new_multiplies(abs_offset, media) ==
  [made |-> TRUE,
   abs_offset |-> abs_offset,
   media_id |-> media.media_id,
   sector_size |-> media.block_size * media.logical_blocks_per_physical_block,
   block_size |-> media.block_size,
   last_block |-> media.last_block]

\* DiskReader::new; media: what the BlockIO protocol reports
DiskReader_new(abs_offset, media) ==
  [made |-> TRUE,
   abs_offset |-> abs_offset,
   media_id |-> media.media_id,
   sector_size |->
     IF media.logical_blocks_per_physical_block = 0
     THEN media.block_size
     ELSE media.block_size \div media.logical_blocks_per_physical_block,
   block_size |-> media.block_size,
   last_block |-> media.last_block]

DiskOk(len) == [tag |-> "Ok", st |-> NoStatus, len |-> len]
DiskErr(st) == [tag |-> "Err", st |-> st, len |-> << >>]
DiskPanic == [tag |-> "Panic", st |-> NoStatus, len |-> << >>]

\* the outcome of a read: the calls made of the read_disk primitive and the
\* value returned
Outcome(calls, res) == [calls |-> calls, res |-> res]

read_bytes_retries(self, offset, count, env) ==
  LET at == add64(self.abs_offset, offset, env.checks)
      call == [media_id |-> self.media_id, offset |-> at.val, len |-> count]
  IN  IF AllocationFails(count, env.alloc_ok) THEN Outcome(<< >>, DiskPanic)
      ELSE IF at.panic THEN Outcome(<< >>, DiskPanic)
      ELSE IF env.prim # SUCCESS THEN Outcome(<<call, call>>, DiskErr(env.prim))
      ELSE Outcome(<<call>>, DiskOk(count))

\* env: [checks, prim, alloc_ok], the build's overflow checks, the status
\* the read_disk primitive returns, and whether the buffer can be allocated
read_bytes(self, offset, count, env) ==
  LET at == add64(self.abs_offset, offset, env.checks)
      call == [media_id |-> self.media_id, offset |-> at.val, len |-> count]
  IN  IF AllocationFails(count, env.alloc_ok) THEN Outcome(<< >>, DiskPanic)
      ELSE IF at.panic THEN Outcome(<< >>, DiskPanic)
      ELSE IF env.prim # SUCCESS THEN Outcome(<<call>>, DiskErr(env.prim))
      ELSE Outcome(<<call>>, DiskOk(count))

read_sector(self, sector, env) ==
  LET offset == mul64(sector, Widen(self.sector_size), env.checks)
  IN  IF offset.panic THEN Outcome(<< >>, DiskPanic)
      ELSE read_bytes(self, offset.val, Widen(self.sector_size), env)

read_sectors_of_blocks(self, sector, count, env) ==
  LET offset == mul64(sector, Widen(self.sector_size), env.checks)
      bytes == mul64(count, Widen(self.block_size), env.checks)
  IN  IF offset.panic \/ bytes.panic THEN Outcome(<< >>, DiskPanic)
      ELSE read_bytes(self, offset.val, bytes.val, env)

read_sectors(self, sector, count, env) ==
  LET offset == mul64(sector, Widen(self.sector_size), env.checks)
      bytes == mul64(count, Widen(self.sector_size), env.checks)
  IN  IF offset.panic \/ bytes.panic THEN Outcome(<< >>, DiskPanic)
      ELSE read_bytes(self, offset.val, bytes.val, env)

read_block(self, lba, env) ==
  LET offset == mul64(lba, Widen(self.block_size), env.checks)
  IN  IF offset.panic THEN Outcome(<< >>, DiskPanic)
      ELSE read_bytes(self, offset.val, Widen(self.block_size), env)

read_blocks(self, lba, count, env) ==
  LET offset == mul64(lba, Widen(self.block_size), env.checks)
      bytes == mul64(count, Widen(self.block_size), env.checks)
  IN  IF offset.panic \/ bytes.panic THEN Outcome(<< >>, DiskPanic)
      ELSE read_bytes(self, offset.val, bytes.val, env)

Builds == [overflow_checks : BOOLEAN]
Medias ==
  [media_id : MediaIds, block_size : BlockSizes,
   logical_blocks_per_physical_block : Ratios, last_block : LastBlocks]
Envs == [checks : BOOLEAN, prim : Statuses, alloc_ok : BOOLEAN]
EnvOf(prim, alloc_ok) ==
  [checks |-> build.overflow_checks, prim |-> prim, alloc_ok |-> alloc_ok]

ReadOps == {"read_bytes", "read_sector", "read_sectors", "read_block", "read_blocks"}

DiskInit ==
  /\ ProtoInit
  /\ dir = NoDirectory
  /\ listed = NoListing
  /\ looked = NoLookup
  /\ build \in Builds
  /\ reader = NoReader
  /\ io = NoIo

New(abs_offset, media) ==
  /\ ~reader.made
  /\ reader' = DiskReader_new(abs_offset, media)
  /\ io' = [op |-> "new", media |-> media]
  /\ UNCHANGED <<build, protoVars, discVars>>

\* the caller is ready for a read once the last result has been taken
CanRead == reader.made /\ io.op \notin ReadOps

ReadBytes(offset, count, prim, alloc_ok) ==
  /\ CanRead
  /\ io' = [op |-> "read_bytes", index |-> offset, count |-> count,
            env |-> EnvOf(prim, alloc_ok),
            out |-> read_bytes(reader, offset, count, EnvOf(prim, alloc_ok))]
  /\ UNCHANGED <<build, reader, protoVars, discVars>>

ReadSector(sector, prim, alloc_ok) ==
  /\ CanRead
  /\ io' = [op |-> "read_sector", index |-> sector, count |-> U64_ONE,
            env |-> EnvOf(prim, alloc_ok),
            out |-> read_sector(reader, sector, EnvOf(prim, alloc_ok))]
  /\ UNCHANGED <<build, reader, protoVars, discVars>>

ReadSectors(sector, count, prim, alloc_ok) ==
  /\ CanRead
  /\ io' = [op |-> "read_sectors", index |-> sector, count |-> count,
            env |-> EnvOf(prim, alloc_ok),
            out |-> read_sectors(reader, sector, count, EnvOf(prim, alloc_ok))]
  /\ UNCHANGED <<build, reader, protoVars, discVars>>

ReadBlock(lba, prim, alloc_ok) ==
  /\ CanRead
  /\ io' = [op |-> "read_block", index |-> lba, count |-> U64_ONE,
            env |-> EnvOf(prim, alloc_ok),
            out |-> read_block(reader, lba, EnvOf(prim, alloc_ok))]
  /\ UNCHANGED <<build, reader, protoVars, discVars>>

ReadBlocks(lba, count, prim, alloc_ok) ==
  /\ CanRead
  /\ io' = [op |-> "read_blocks", index |-> lba, count |-> count,
            env |-> EnvOf(prim, alloc_ok),
            out |-> read_blocks(reader, lba, count, EnvOf(prim, alloc_ok))]
  /\ UNCHANGED <<build, reader, protoVars, discVars>>

\* the caller takes the result of a read that returned
TakeResult ==
  /\ io.op \in ReadOps
  /\ io.out.res.tag # "Panic"
  /\ io' = NoIo
  /\ UNCHANGED <<build, reader, protoVars, discVars>>

DiskNext ==
  \/ \E a \in AbsOffsets, m \in Medias : New(a, m)
  \/ \E o \in Indices, c \in Counts, st \in Statuses, ok \in BOOLEAN :
       ReadBytes(o, c, st, ok)
  \/ \E o \in Indices, st \in Statuses, ok \in BOOLEAN : ReadSector(o, st, ok)
  \/ \E o \in Indices, c \in Counts, st \in Statuses, ok \in BOOLEAN :
       ReadSectors(o, c, st, ok)
  \/ \E o \in Indices, st \in Statuses, ok \in BOOLEAN : ReadBlock(o, st, ok)
  \/ \E o \in Indices, c \in Counts, st \in Statuses, ok \in BOOLEAN :
       ReadBlocks(o, c, st, ok)
  \/ TakeResult

SpecDisk == DiskInit /\ [][DiskNext]_vars

\* the directory and its subdirectory open and every entry enumerates
EnumeratesCleanly ==
  /\ dir.openTop = SUCCESS
  /\ dir.openSub = SUCCESS
  /\ dir.readFailAt = 0
  /\ dir.openFailAt = 0

\* how many of the directory's valid driver files carry the name
MatchCount(entries, driver_name) ==
  Cardinality({j \in 1..Len(ExpectedDrivers(entries)) :
                 ExpectedDrivers(entries)[j] = driver_name})

\* C11: a lookup by name in a directory of driver files with distinct names
\* returns Ok(None) when no driver file has exactly the requested name, and
\* Ok(Some(d)) with d named as requested when exactly one has.
C11_LookupByName ==
  (looked.tag # "none" /\ EnumeratesCleanly) =>
    /\ MatchCount(dir.entries, looked.want) = 0 =>
         (looked.tag = "Ok" /\ looked.found = << >>)
    /\ MatchCount(dir.entries, looked.want) = 1 =>
         /\ looked.tag = "Ok"
         /\ Len(looked.found) = 1
         /\ looked.found[1].name = looked.want

\* C12: for both kinds a lookup returns Err(status) when the driver
\* directory or its boot or fs subdirectory fails to open, and Ok(None)
\* when the directories open and no driver has the requested name.
C12_OpenFailureIsErr ==
  looked.tag # "none" =>
    /\ dir.openTop # SUCCESS => (looked.tag = "Err" /\ looked.st = dir.openTop)
    /\ (dir.openTop = SUCCESS /\ dir.openSub # SUCCESS) =>
         (looked.tag = "Err" /\ looked.st = dir.openSub)
    /\ (EnumeratesCleanly /\ MatchCount(dir.entries, looked.want) = 0) =>
         (looked.tag = "Ok" /\ looked.found = << >>)

\* the enumeration gets as far as the read_entry_boxed call that fails
ReadFailureReached ==
  /\ dir.openTop = SUCCESS
  /\ dir.openSub = SUCCESS
  /\ dir.readFailAt # 0
  /\ (dir.openFailAt = 0 \/ dir.openFailAt >= dir.readFailAt)

\* C13: a listing, and a lookup built on it, returns Err(status) when
\* reading a directory entry fails during the enumeration.
C13_ReadFailureIsErr ==
  ReadFailureReached =>
    /\ listed.tag # "none" => listed.tag = "Err"
    /\ looked.tag # "none" => looked.tag = "Err"

\* a read has been made and its outcome recorded
ReadMade == io.op \in ReadOps

\* the unit a read counts in, as u64
UnitOf(op) ==
  IF op \in {"read_sector", "read_sectors"} THEN Widen(reader.sector_size)
  ELSE IF op \in {"read_block", "read_blocks"} THEN Widen(reader.block_size)
  ELSE U64_ONE

\* read_bytes(index * unit, count * unit), the products in the program's own
\* arithmetic
AsReadBytes(index, count, unit, env) ==
  LET offset == mul64(index, unit, env.checks)
      bytes == mul64(count, unit, env.checks)
  IN  IF offset.panic \/ bytes.panic THEN Outcome(<< >>, DiskPanic)
      ELSE read_bytes(reader, offset.val, bytes.val, env)

\* C14: read_sector(s), read_sectors(s, c), read_block(lba) and
\* read_blocks(lba, c) equal read_bytes at s * sector_size or lba *
\* block_size for one or c units of that size, and a successful read_bytes
\* returns exactly count bytes.
C14_HelpersAreReadBytes ==
  ReadMade =>
    /\ io.op # "read_bytes" =>
         io.out = AsReadBytes(io.index, io.count, UnitOf(io.op), io.env)
    /\ (io.op = "read_bytes" /\ io.out.res.tag = "Ok") => io.out.res.len = io.count

C14_Witness ==
  /\ io.op = "read_sectors"
  /\ reader.sector_size = 170
  /\ reader.block_size = 512
  /\ io.index = Widen(3)
  /\ io.count = Widen(2)
  /\ io.out.res = DiskOk(Widen(340))

\* C15 as stated: sector_size is block_size for ratio 0 and block_size /
\* ratio otherwise, and sector_size * ratio = block_size whenever ratio > 0.
C15_SectorSize_AsStated ==
  io.op = "new" =>
    LET ratio == io.media.logical_blocks_per_physical_block
    IN  /\ ratio = 0 => reader.sector_size = reader.block_size
        /\ ratio > 0 =>
             /\ reader.sector_size = reader.block_size \div ratio
             /\ reader.sector_size * ratio = reader.block_size

\* C15: sector_size is block_size for ratio 0 and the integer quotient
\* block_size / ratio otherwise; whenever ratio > 0, sector_size * ratio is
\* at most block_size and falls short of it by less than ratio, and equals
\* block_size exactly when ratio divides block_size.
C15_SectorSize ==
  io.op = "new" =>
    LET ratio == io.media.logical_blocks_per_physical_block
    IN  /\ reader.block_size = io.media.block_size
        /\ ratio = 0 => reader.sector_size = reader.block_size
        /\ ratio > 0 =>
             /\ reader.sector_size = reader.block_size \div ratio
             /\ reader.sector_size * ratio <= reader.block_size
             /\ reader.block_size < (reader.sector_size + 1) * ratio
             /\ (reader.sector_size * ratio = reader.block_size) <=>
                  (reader.block_size % ratio = 0)

C15_Witness ==
  /\ io.op = "new"
  /\ io.media.logical_blocks_per_physical_block = 3
  /\ reader.block_size = 512
  /\ reader.sector_size = 170

\* C16: every read hands the primitive the reader's media id, the
\* mathematical offset abs_offset + index * unit and the mathematical length
\* count * unit, for all 64-bit values.
C16_AbsoluteOffset ==
  ReadMade =>
    \A j \in 1..Len(io.out.calls) :
      /\ io.out.calls[j].media_id = reader.media_id
      /\ Pad(io.out.calls[j].offset, WIDE + 1) =
           AddExact(reader.abs_offset, MulExact(io.index, UnitOf(io.op)))
      /\ Pad(io.out.calls[j].len, WIDE + 1) =
           (IF io.op \in {"read_bytes", "read_sectors", "read_blocks"}
            THEN MulExact(io.count, UnitOf(io.op))
            ELSE Pad(UnitOf(io.op), WIDE + 1))

\* a field of the reader changes
ReaderChanges == reader.made /\ reader' # reader

PanicsBeforeRead ==
  LET offset == mul64(io.index, UnitOf(io.op), io.env.checks)
      bytes == IF io.op \in {"read_bytes", "read_sectors", "read_blocks"}
               THEN mul64(io.count, UnitOf(io.op), io.env.checks)
               ELSE [panic |-> FALSE, val |-> UnitOf(io.op)]
  IN  \/ offset.panic
      \/ bytes.panic
      \/ ExceedsIsizeMax(bytes.val)
      \/ (bytes.val # U64_ZERO /\ ~io.env.alloc_ok)
      \/ add64(reader.abs_offset, offset.val, io.env.checks).panic

FirstOfType(map, ty) ==
  IF RegionsOf(map, ty) = {} THEN 0
  ELSE CHOOSE i \in RegionsOf(map, ty) : \A j \in RegionsOf(map, ty) : i <= j

\* the step of a started image from its entry over find_io_memory
LocateStep == pc = "entry" /\ pc' # "entry"

\* C18: find_io_memory returns SUCCESS and records in DRIVER_IO the physical
\* start of the first memory-map entry of the tag, or returns NOT_FOUND and
\* leaves DRIVER_IO as it was; allocated_driver_io is None until a locate
\* has succeeded and then the channel at the recorded address.
C18_LocateSemantics ==
  /\ \A k \in Kinds : allocated_driver_io(DRIVER_IO[k]) = NULL
  /\ [][/\ LocateStep =>
             LET first == FirstOfType(memmap, MemTypeOf(cur.kind))
             IN  IF first # 0
                 THEN /\ cur'.locateSt = SUCCESS
                      /\ DRIVER_IO'[cur.kind] = memmap[first].phys_start
                      /\ allocated_driver_io(DRIVER_IO'[cur.kind]) =
                           memmap[first].phys_start
                 ELSE /\ cur'.locateSt = NOT_FOUND
                      /\ DRIVER_IO' = DRIVER_IO
        /\ \A k \in Kinds :
             (allocated_driver_io(DRIVER_IO[k]) = NULL /\
              allocated_driver_io(DRIVER_IO'[k]) # NULL) =>
               (LocateStep /\ cur.kind = k /\ cur'.locateSt = SUCCESS)]_vars
  /\ [](cur.mainCalled =>
          /\ cur.located # NULL
          /\ cur.located = allocated_driver_io(DRIVER_IO[cur.kind]))

\* a locate succeeded with two regions of the tag in the memory map, and
\* one failed leaving the recorded channel of an earlier start
C18_Witness ==
  /\ pc = "main"
  /\ cur.locateSt = SUCCESS
  /\ Cardinality(RegionsOf(memmap, MemTypeOf(cur.kind))) = 2
  /\ DRIVER_IO[cur.kind] =
       memmap[FirstOfType(memmap, MemTypeOf(cur.kind))].phys_start

\* C19: at the start of an invocation the channel built for it has inptr at
\* the caller's arguments and a null outptr; in a boot invocation outptr
\* stays null and no output region is allocated; in an fs invocation outptr
\* is written only by the prelude's Ok branch, once; inptr is never
\* modified.
C19_OutptrDiscipline ==
  /\ []((pc = "entry" /\ cur.via = "invoke") =>
          /\ dio = [inptr |-> cur.args, outptr |-> NULL]
          /\ chan[cur.fresh] = dio)
  /\ []((cur.kind = "boot" /\ cur.via = "invoke" /\ cur.fresh # NULL) =>
          /\ chan[cur.fresh].outptr = NULL
          /\ dio.outptr = NULL
          /\ cur.outAlloc = NULL)
  /\ [](\A i \in RegionsOf(memmap, BOOT_DRIVER_IO_MEMTYPE) :
          chan[memmap[i].phys_start].outptr = NULL)
  /\ [][\A a \in DOMAIN chan :
          /\ chan'[a].inptr = chan[a].inptr
          /\ chan'[a].outptr # chan[a].outptr =>
               /\ pc = "main" /\ pc' = "exited"
               /\ cur.kind = "fs"
               /\ cur'.mainRes.tag = "Ok"
               /\ a = cur'.located
               /\ chan'[a].outptr = cur'.outAlloc]_vars
  /\ []((cur.kind = "fs" /\ cur.mainCalled) =>
          (cur.outAlloc # NULL <=> cur.mainRes.tag = "Ok"))

C19_Witness ==
  /\ pc = "exited"
  /\ cur.kind = "fs"
  /\ cur.via = "invoke"
  /\ cur.mainRes.tag = "Ok"
  /\ chan[cur.located].outptr = cur.outAlloc
  /\ cur.outAlloc # NULL
  /\ chan[cur.located].inptr = cur.args

\* C20: whenever FSDriver::invoke reads the length and payload through
\* outptr, outptr is not null and is the output region the prelude
\* populated in this invocation, whatever the driver's main returned.
C20_NoUnpopulatedRead ==
  (FsInvokeDone /\ cur.outRead) =>
    /\ dio.outptr # NULL
    /\ dio.outptr \in DOMAIN outbuf
    /\ cur.mainCalled
    /\ dio.outptr = cur.outAlloc

\* C21: on every invocation the arguments the prelude hands to the driver's
\* main are the ones passed to that invoke call, read from the region
\* allocated for it, never those left in an older region of the same tag.
C21_ArgumentFreshness ==
  (cur.via = "invoke" /\ cur.mainCalled) =>
    /\ cur.mainArgs = cur.args
    /\ cur.located = cur.fresh

====
